---- MODULE Spec2Model ----
(***************************************************************************)
(* HYDRA V2 - El Guardian (RiskManager), its ledger (PositionTracker), the *)
(* mechanical kill switch (EMERGENCY_STOP file) and the heartbeat monitor. *)
(*                                                                         *)
(* Python floats are modelled as exact rationals <<n, d>> (d > 0, lowest   *)
(* terms); money amounts and quantities fed to the operations are whole    *)
(* numbers, every derived value is computed as the code computes it.       *)
(***************************************************************************)
EXTENDS Integers, Sequences, FiniteSets, TLC

VARIABLES
    kill_switch,        \* the EMERGENCY_STOP file exists
    now,                \* datetime.utcnow(), in seconds
    today,              \* date.today(), as a day number
    system_health,      \* RiskManager.system_health (SystemHealth)
    open_positions,     \* PositionTracker._open_positions
    daily_pnl,          \* PositionTracker._daily_pnl
    account_balance,    \* PositionTracker._account_balance
    initial_balance,    \* PositionTracker._initial_balance
    order_request,      \* Some(argument) of the validate_order call just made, else None
    approval,           \* Some(OrderApproval) that call returned, else None
    log,                \* guardian_logger records emitted by the operation just made
    ledger_ops,         \* number of balance/PnL updates made so far
    day_start_balance,  \* history: the account balance when the current day began
                        \* (or was set, or was reset, later in that day)
    retry,              \* history of a request refused for open positions:
                        \* <<"rejected", request>> when the call just made returned
                        \* MAX_POSITIONS_REACHED, <<"closed", request>> when
                        \* remove_position then closed an open position,
                        \* <<"resubmitted", request>> when the same request was then
                        \* validated again; None otherwise
    inflight,           \* per caller: None, or Some(the locals of its validate_order
                        \* call in progress), when calls run as interleaved threads
    fault,              \* None, or Some(the internal failure met by the call just made)
    runner,             \* system_runner.main: its place in the loop and Balam's expediente
    exchange,           \* Executioner.connector (MockExchange)
    latch               \* history of the daily-loss latch: "open" until the daily-loss
                        \* gate first activates the kill switch, then "latched", and
                        \* "released" once deactivate_kill_switch has removed that activation

vars == <<kill_switch, now, today, system_health, open_positions, daily_pnl,
          account_balance, initial_balance, order_request, approval, log,
          ledger_ops, day_start_balance, retry, inflight, fault, runner,
          exchange, latch>>

\* Optional[T]: None, or Some(v) holding v
None == <<>>
Some(v) == <<v>>
Val(o) == o[1]

\* ---------------------------------------------------------------- bounds

TickSeconds == 30
MaxTicks == 2
MaxLedgerOps == 2

\* ------------------------------------------------------- float arithmetic

RECURSIVE GCD(_, _)
GCD(a, b) == IF b = 0 THEN a ELSE GCD(b, a % b)

Abs(x) == IF x < 0 THEN -x ELSE x

Rat(n, d) ==
    LET s == IF d < 0 THEN -1 ELSE 1
        g == GCD(Abs(n), Abs(d))
    IN  <<(s * n) \div g, (s * d) \div g>>

Float(i) == <<i, 1>>

RatMul(a, b) == Rat(a[1] * b[1], a[2] * b[2])
RatDiv(a, b) == Rat(a[1] * b[2], a[2] * b[1])
RatSub(a, b) == Rat(a[1] * b[2] - b[1] * a[2], a[2] * b[2])
RatNeg(a) == <<-a[1], a[2]>>
RatAbs(a) == <<Abs(a[1]), a[2]>>
RatLe(a, b) == a[1] * b[2] <= b[1] * a[2]
RatLt(a, b) == a[1] * b[2] < b[1] * a[2]
RatMax(a, b) == IF RatLe(a, b) THEN b ELSE a
RatAdd(a, b) == RatSub(a, RatNeg(b))

\* <<floor(x * 10^k), remainder>> of x = (qr[1] + qr[2] / d), digit by digit
RECURSIVE Shift(_, _, _)
Shift(qr, d, k) ==
    IF k = 0
    THEN qr
    ELSE Shift(<<qr[1] * 10 + (qr[2] * 10) \div d, (qr[2] * 10) % d>>, d, k - 1)

RECURSIVE Pow10(_)
Pow10(k) == IF k = 0 THEN 1 ELSE 10 * Pow10(k - 1)

\* round(x, ndigits) of a float x >= 0: to the nearest, ties to even
round(x, ndigits) ==
    LET qr == Shift(<<x[1] \div x[2], x[1] % x[2]>>, x[2], ndigits)
        up == \/ 2 * qr[2] > x[2]
              \/ 2 * qr[2] = x[2] /\ qr[1] % 2 = 1
    IN  Rat(qr[1] + (IF up THEN 1 ELSE 0), Pow10(ndigits))

\* ------------------------------------------------------ Settings (config)

max_daily_loss_pct == Rat(5, 100)
max_risk_per_trade_pct == Rat(2, 100)
heartbeat_timeout_seconds == 60
max_leverage == 5
max_concurrent_positions == 3
initial_balance_usdt == 40
settings_stop_loss_pct == Rat(2, 100)

\* ------------------------------------------------------------ input sets

Modules == {"SENTINEL", "EXECUTOR", "BALAM", "SYSTEM_RUNNER"}
GateModules == {"SENTINEL", "SYSTEM_RUNNER"}
Symbols == {"BTCUSDT"}
Sides == {"BUY"}
Quantities == {1000, 2000}
Leverages == {max_leverage, max_leverage + 1}
StopLossPcts == {Rat(2, 100)}
Balances == {1000}
PnlAmounts == {-100, -50, 50}
PositionQuantities == {1}
PositionIds == {1, 2, 3}
RequestIds == {1}
Callers == {1, 2}
Reasons == {"ANOMALY"}
Days == {0, 1}

OrderRequest ==
    [symbol : Symbols, side : Sides, quantity : {Float(q) : q \in Quantities},
     leverage : Leverages, stop_loss_pct : StopLossPcts]

\* ---------------------------------------------------------- MockExchange

\* MockExchange.__init__: the simulated balance, no position, no trade
MockExchange ==
    [usdt_balance |-> Float(initial_balance_usdt),
     positions |-> [symbol \in Symbols |-> None],
     trade_count |-> 0]

\* system_runner.main before its first cycle
Runner == [pc |-> "balam", expediente |-> None]

\* ---------------------------------------------------------- SystemHealth

SystemHealth ==
    [sentinel_last_heartbeat |-> None,
     executor_last_heartbeat |-> None,
     balam_last_heartbeat |-> None,
     is_sentinel_alive |-> FALSE,
     is_executor_alive |-> FALSE,
     is_balam_alive |-> FALSE,
     kill_switch_active |-> FALSE]

\* blind as soon as any monitored module is not alive
is_system_blind_any_module(h) ==
    ~(h.is_sentinel_alive /\ h.is_executor_alive /\ h.is_balam_alive)

is_system_blind(h) == ~h.is_sentinel_alive

\* ------------------------------------------------------------ kill switch

\* reads the materialized flag of SystemHealth instead of the file
is_kill_switch_active_from_health == system_health.kill_switch_active

is_kill_switch_active == kill_switch

\* ------------------------------------------------------- PositionTracker

get_daily_pnl_usdt ==
    IF today \in DOMAIN daily_pnl THEN daily_pnl[today] ELSE 0

get_daily_pnl_pct ==
    IF initial_balance = 0
    THEN Float(0)
    ELSE RatMul(RatDiv(Float(get_daily_pnl_usdt), Float(initial_balance)), Float(100))

get_open_positions_count == Cardinality(DOMAIN open_positions)

calculate_position_size(risk_pct, stop_loss_pct, entry_price) ==
    LET risk_amount_usdt == RatMul(Float(account_balance), risk_pct)
    IN  RatDiv(risk_amount_usdt, RatMul(entry_price, stop_loss_pct))

get_remaining_risk_budget_pct(limit) ==
    LET current_loss_pct == get_daily_pnl_pct
    IN  IF RatLe(Float(0), current_loss_pct)
        THEN RatAbs(limit)
        ELSE RatMax(Float(0), RatSub(RatAbs(limit), RatAbs(current_loss_pct)))

\* ------------------------------------------------------------ RiskManager

_update_system_health ==
    LET timeout == heartbeat_timeout_seconds
        alive ==
            IF system_health.sentinel_last_heartbeat # None
            THEN now - Val(system_health.sentinel_last_heartbeat) < timeout
            ELSE FALSE
    IN  [system_health EXCEPT !.is_sentinel_alive = alive,
                              !.kill_switch_active = is_kill_switch_active]

\* strict comparison: a loss of exactly the limit passes
daily_loss_limit_strict(daily_loss_pct) ==
    RatLt(daily_loss_pct, RatMul(RatNeg(max_daily_loss_pct), Float(100)))

daily_loss_limit_reached(daily_loss_pct) ==
    RatLe(daily_loss_pct, RatMul(RatNeg(max_daily_loss_pct), Float(100)))

\* the requested quantity is passed through whatever the bound
_validate_position_size_unclamped(req) == <<req.quantity, TRUE>>

\* returns <<adjusted quantity, sizing_valid>>
_validate_and_adjust_position_size(req) ==
    LET max_allowed_quantity ==
            calculate_position_size(max_risk_per_trade_pct, req.stop_loss_pct, Float(1))
    IN  IF RatLe(req.quantity, max_allowed_quantity)
        THEN <<req.quantity, TRUE>>
        ELSE <<max_allowed_quantity, TRUE>>

\* a leverage of exactly max_leverage is already too high
leverage_at_limit_rejected(req) == req.leverage >= max_leverage

leverage_too_high(req) == req.leverage > max_leverage

\* a ledger holding exactly max_concurrent_positions positions is not full yet
max_positions_exceeded == get_open_positions_count > max_concurrent_positions

max_positions_reached == get_open_positions_count >= max_concurrent_positions

\* sha256 is modelled as an injective function of the signed payload
_generate_signature(request_id, req) ==
    <<request_id, req.symbol, req.side, req.quantity, now>>

_approve_order(request_id, req, adjusted_quantity) ==
    [approval |->
        [request_id |-> request_id,
         approved |-> TRUE,
         adjusted_quantity |-> Some(adjusted_quantity),
         signature |-> Some(_generate_signature(request_id, req)),
         rejection_reason |-> None,
         rejection_details |-> None,
         timestamp |-> now,
         current_daily_loss_pct |-> get_daily_pnl_pct,
         remaining_risk_budget |-> get_remaining_risk_budget_pct(max_daily_loss_pct)],
     log |->
        <<[kind |-> "DECISION", decision_type |-> "GUARDIAN_APPROVAL",
           module |-> "GUARDIAN", timestamp |-> now,
           request_id |-> request_id, approved |-> TRUE,
           adjusted_quantity |-> adjusted_quantity, quantity |-> req.quantity]>>]

\* a rejection that still carries the requested quantity
_reject_order_with_quantity(request_id, req, reason) ==
    [approval |->
        [request_id |-> request_id,
         approved |-> FALSE,
         adjusted_quantity |-> Some(req.quantity),
         signature |-> None,
         rejection_reason |-> Some(reason),
         rejection_details |-> Some(reason),
         timestamp |-> now,
         current_daily_loss_pct |-> get_daily_pnl_pct,
         remaining_risk_budget |-> get_remaining_risk_budget_pct(max_daily_loss_pct)],
     log |->
        <<[kind |-> "REJECTION", request_id |-> request_id,
           reason |-> reason, details |-> reason]>>]

_reject_order(request_id, req, reason) ==
    [approval |->
        [request_id |-> request_id,
         approved |-> FALSE,
         adjusted_quantity |-> None,
         signature |-> None,
         rejection_reason |-> Some(reason),
         rejection_details |-> Some(reason),
         timestamp |-> now,
         current_daily_loss_pct |-> get_daily_pnl_pct,
         remaining_risk_budget |-> get_remaining_risk_budget_pct(max_daily_loss_pct)],
     log |->
        <<[kind |-> "REJECTION", request_id |-> request_id,
           reason |-> reason, details |-> reason]>>]

log_kill_switch_activation(reason, context) ==
    <<[kind |-> "KILL_SWITCH_ACTIVATED", reason |-> reason, context |-> context]>>

\* the lines written when a request comes in
log_request_received(request_id, req) ==
    <<[kind |-> "INFO", request_id |-> request_id, symbol |-> req.symbol,
       side |-> req.side, quantity |-> req.quantity]>>

\* the warning written when the requested quantity is cut down
log_position_adjusted(req, sized) ==
    IF sized[1] = req.quantity
    THEN <<>>
    ELSE <<[kind |-> "WARNING", quantity |-> req.quantity,
            max_allowed_quantity |-> sized[1]]>>

\* What a validate_order call leaves behind: the decision r returned, the
\* health record, whether the EMERGENCY_STOP file was touched, and the
\* forensic records emitted.
outcome(r, health, activate, first_log) ==
    [approval |-> r.approval, health |-> health, activate |-> activate,
     log |-> first_log \o r.log]

\* VALIDACION 5, 6, 7 and the approval
gates_from_sizing(req, request_id, health) ==
    LET sized == _validate_and_adjust_position_size(req) IN
    IF ~sized[2]
    THEN outcome(_reject_order(request_id, req, "POSITION_SIZE_TOO_LARGE"),
                 health, FALSE, log_position_adjusted(req, sized))
    ELSE IF leverage_too_high(req)
    THEN outcome(_reject_order(request_id, req, "LEVERAGE_TOO_HIGH"),
                 health, FALSE, log_position_adjusted(req, sized))
    ELSE IF max_positions_reached
    THEN outcome(_reject_order(request_id, req, "MAX_POSITIONS_REACHED"),
                 health, FALSE, log_position_adjusted(req, sized))
    ELSE outcome(_approve_order(request_id, req, sized[1]), health, FALSE,
                 log_position_adjusted(req, sized))

\* VALIDACION 4: the daily loss limit, which activates the kill switch
daily_loss_trip(req, request_id, health) ==
    outcome(_reject_order(request_id, req, "DAILY_LOSS_LIMIT_EXCEEDED"),
            health, TRUE,
            log_kill_switch_activation("DAILY_LOSS_LIMIT_EXCEEDED",
                [daily_loss_pct |-> get_daily_pnl_pct,
                 limit |-> RatMul(RatNeg(max_daily_loss_pct), Float(100))]))

\* the daily loss limit is looked at before the heartbeat
validate_loss_before_heartbeat(req, request_id) ==
    IF is_kill_switch_active
    THEN outcome(_reject_order(request_id, req, "KILL_SWITCH_ACTIVE"),
                 system_health, FALSE, <<>>)
    ELSE
    LET health == _update_system_health IN
    IF daily_loss_limit_reached(get_daily_pnl_pct)
    THEN daily_loss_trip(req, request_id, health)
    ELSE IF is_system_blind(health)
    THEN outcome(_reject_order(request_id, req, "HEARTBEAT_TIMEOUT"),
                 health, FALSE, <<>>)
    ELSE gates_from_sizing(req, request_id, health)

\* the daily loss limit is looked at before the kill switch, so that a breach
\* activates the switch again while it is active
validate_loss_before_kill_switch(req, request_id) ==
    LET health == _update_system_health IN
    IF ~is_system_blind(health) /\ daily_loss_limit_reached(get_daily_pnl_pct)
    THEN daily_loss_trip(req, request_id, health)
    ELSE IF is_kill_switch_active
    THEN outcome(_reject_order(request_id, req, "KILL_SWITCH_ACTIVE"),
                 system_health, FALSE, <<>>)
    ELSE IF is_system_blind(health)
    THEN outcome(_reject_order(request_id, req, "HEARTBEAT_TIMEOUT"),
                 health, FALSE, <<>>)
    ELSE gates_from_sizing(req, request_id, health)

\* The whole of validate_order as a function of the state it is called in.
validate(req, request_id) ==
    IF is_kill_switch_active
    THEN outcome(_reject_order(request_id, req, "KILL_SWITCH_ACTIVE"),
                 system_health, FALSE, <<>>)
    ELSE
    LET health == _update_system_health IN
    IF is_system_blind(health)
    THEN outcome(_reject_order(request_id, req, "HEARTBEAT_TIMEOUT"),
                 health, FALSE, <<>>)
    ELSE IF daily_loss_limit_reached(get_daily_pnl_pct)
    THEN daily_loss_trip(req, request_id, health)
    ELSE gates_from_sizing(req, request_id, health)

\* what VALIDACION 4 and 5 of validate_order, run as one atomic step in the
\* current state, decide: the daily loss limit is reached, or else the
\* quantity the request is sized to
atomic_decision(req) ==
    IF daily_loss_limit_reached(get_daily_pnl_pct)
    THEN <<"DAILY_LOSS_LIMIT_EXCEEDED">>
    ELSE <<"SIZED", _validate_and_adjust_position_size(req)[1]>>

\* ---------------------------------------------------------------- actions

ledger == <<open_positions, daily_pnl, account_balance, initial_balance, ledger_ops,
            day_start_balance>>
execution == <<runner, exchange>>
clock == <<now, today>>
switch == <<kill_switch, latch>>

\* the operation just made was not validate_order
no_decision == order_request' = None /\ approval' = None

\* a call in flight that is between reading the daily loss and sizing the
\* request notes what the two gates, run atomically, would decide in the
\* current state, before the state moves on
noting(call) ==
    IF call # None /\ Val(call).pc \in {"sizing"}
    THEN Some([Val(call) EXCEPT !.seen = @ \cup {atomic_decision(Val(call).req)}])
    ELSE call

\* The operation ran as one step and met no failure; the validate_order calls
\* in flight on other threads stay where they are, and so do the main loop and
\* the exchange.
undisturbed ==
    /\ fault' = None
    /\ UNCHANGED execution
    /\ inflight' = [u \in Callers |-> noting(inflight[u])]

validate_order(req, request_id) ==
    LET v == validate(req, request_id) IN
    /\ order_request' = Some(req)
    /\ approval' = Some(v.approval)
    /\ system_health' = v.health
    /\ kill_switch' = (kill_switch \/ v.activate)
    /\ latch' = IF v.activate THEN "latched" ELSE latch
    /\ log' = log_request_received(request_id, req) \o v.log
    /\ retry' =
        IF v.approval.rejection_reason = Some("MAX_POSITIONS_REACHED")
        THEN <<"rejected", req>>
        ELSE IF retry = <<"closed", req>> THEN <<"resubmitted", req>> ELSE None
    /\ UNCHANGED <<ledger, clock>>
    /\ undisturbed

\* the first heartbeat of a module is stamped, later ones are ignored
heartbeat_stamped_once(h, module_name, t) ==
    CASE module_name = "SENTINEL" ->
            [h EXCEPT !.sentinel_last_heartbeat =
                        IF h.sentinel_last_heartbeat = None THEN Some(t) ELSE @,
                      !.is_sentinel_alive = TRUE]
      [] module_name = "EXECUTOR" ->
            [h EXCEPT !.executor_last_heartbeat =
                        IF h.executor_last_heartbeat = None THEN Some(t) ELSE @,
                      !.is_executor_alive = TRUE]
      [] module_name = "BALAM" ->
            [h EXCEPT !.balam_last_heartbeat =
                        IF h.balam_last_heartbeat = None THEN Some(t) ELSE @,
                      !.is_balam_alive = TRUE]
      [] OTHER -> h

\* the health record h after a heartbeat of module_name received at time t
\* a heartbeat under any other name counts as the sentinel's
heartbeat_unknown_is_sentinel(h, module_name, t) ==
    CASE module_name = "EXECUTOR" ->
            [h EXCEPT !.executor_last_heartbeat = Some(t),
                      !.is_executor_alive = TRUE]
      [] module_name = "BALAM" ->
            [h EXCEPT !.balam_last_heartbeat = Some(t),
                      !.is_balam_alive = TRUE]
      [] OTHER ->
            [h EXCEPT !.sentinel_last_heartbeat = Some(t),
                      !.is_sentinel_alive = TRUE]

heartbeat(h, module_name, t) ==
    CASE module_name = "SENTINEL" ->
            [h EXCEPT !.sentinel_last_heartbeat = Some(t),
                      !.is_sentinel_alive = TRUE]
      [] module_name = "EXECUTOR" ->
            [h EXCEPT !.executor_last_heartbeat = Some(t),
                      !.is_executor_alive = TRUE]
      [] module_name = "BALAM" ->
            [h EXCEPT !.balam_last_heartbeat = Some(t),
                      !.is_balam_alive = TRUE]
      [] OTHER -> h

receive_heartbeat(module_name) ==
    /\ system_health' = heartbeat(system_health, module_name, now)
    /\ log' = <<>>
    /\ no_decision
    /\ retry' = None
    /\ UNCHANGED <<switch, ledger, clock>>
    /\ undisturbed

\* the stop is logged but the EMERGENCY_STOP file is not created
emergency_stop_log_only(reason) ==
    /\ UNCHANGED <<kill_switch, latch>>
    /\ log' = log_kill_switch_activation(reason,
                    [daily_loss |-> get_daily_pnl_pct,
                     open_positions |-> get_open_positions_count])
    /\ no_decision
    /\ retry' = None
    /\ UNCHANGED <<system_health, ledger, clock>>
    /\ undisturbed

emergency_stop(reason) ==
    /\ kill_switch' = TRUE
    /\ UNCHANGED latch
    /\ log' = log_kill_switch_activation(reason,
                    [daily_loss |-> get_daily_pnl_pct,
                     open_positions |-> get_open_positions_count])
    /\ no_decision
    /\ retry' = None
    /\ UNCHANGED <<system_health, ledger, clock>>
    /\ undisturbed

\* the daily reset also clears the kill switch
reset_clears_kill_switch ==
    /\ ledger_ops < MaxLedgerOps
    /\ ledger_ops' = ledger_ops + 1
    /\ daily_pnl' =
        [d \in DOMAIN daily_pnl \cup {today} |->
            IF d = today THEN 0 ELSE daily_pnl[d]]
    /\ initial_balance' = account_balance
    /\ day_start_balance' = account_balance
    /\ kill_switch' = FALSE
    /\ UNCHANGED latch
    /\ log' = <<>>
    /\ no_decision
    /\ retry' = None
    /\ UNCHANGED <<system_health, open_positions, account_balance, clock>>
    /\ undisturbed

deactivate_kill_switch ==
    /\ kill_switch' = FALSE
    /\ latch' = IF latch = "latched" THEN "released" ELSE latch
    /\ log' = <<>>
    /\ no_decision
    /\ retry' = None
    /\ UNCHANGED <<system_health, ledger, clock>>
    /\ undisturbed

set_initial_balance(balance) ==
    /\ ledger_ops < MaxLedgerOps
    /\ ledger_ops' = ledger_ops + 1
    /\ account_balance' = balance
    /\ initial_balance' = balance
    /\ day_start_balance' = balance
    /\ log' = <<>>
    /\ no_decision
    /\ retry' = None
    /\ UNCHANGED <<switch, system_health, open_positions, daily_pnl, clock>>
    /\ undisturbed

add_position(position) ==
    /\ open_positions' =
        [id \in DOMAIN open_positions \cup {position.position_id} |->
            IF id = position.position_id THEN position ELSE open_positions[id]]
    /\ log' = <<>>
    /\ no_decision
    /\ retry' = None
    /\ UNCHANGED <<switch, system_health, daily_pnl, account_balance,
                   initial_balance, ledger_ops, day_start_balance, clock>>
    /\ undisturbed

remove_position(position_id) ==
    /\ open_positions' =
        [id \in DOMAIN open_positions \ {position_id} |-> open_positions[id]]
    /\ log' = <<>>
    /\ no_decision
    /\ retry' =
        IF retry # None /\ retry[1] = "rejected" /\ position_id \in DOMAIN open_positions
        THEN <<"closed", retry[2]>>
        ELSE None
    /\ UNCHANGED <<switch, system_health, daily_pnl, account_balance,
                   initial_balance, ledger_ops, day_start_balance, clock>>
    /\ undisturbed

record_realized_pnl(pnl_usdt) ==
    /\ ledger_ops < MaxLedgerOps
    /\ ledger_ops' = ledger_ops + 1
    /\ daily_pnl' =
        [d \in DOMAIN daily_pnl \cup {today} |->
            IF d = today THEN get_daily_pnl_usdt + pnl_usdt ELSE daily_pnl[d]]
    /\ account_balance' = account_balance + pnl_usdt
    /\ log' = <<>>
    /\ no_decision
    /\ retry' = None
    /\ UNCHANGED <<switch, system_health, open_positions, initial_balance,
                   day_start_balance, clock>>
    /\ undisturbed

reset_daily_tracking ==
    /\ ledger_ops < MaxLedgerOps
    /\ ledger_ops' = ledger_ops + 1
    /\ daily_pnl' =
        [d \in DOMAIN daily_pnl \cup {today} |->
            IF d = today THEN 0 ELSE daily_pnl[d]]
    /\ initial_balance' = account_balance
    /\ day_start_balance' = account_balance
    /\ log' = <<>>
    /\ no_decision
    /\ retry' = None
    /\ UNCHANGED <<switch, system_health, open_positions, account_balance, clock>>
    /\ undisturbed

\* time passes
Tick ==
    /\ now + TickSeconds <= MaxTicks * TickSeconds
    /\ now' = now + TickSeconds
    /\ log' = <<>>
    /\ no_decision
    /\ retry' = None
    /\ UNCHANGED <<switch, system_health, ledger, today>>
    /\ undisturbed

\* the calendar day changes
NewDay ==
    /\ today + 1 \in Days
    /\ today' = today + 1
    /\ day_start_balance' = account_balance
    /\ log' = <<>>
    /\ no_decision
    /\ retry' = None
    /\ UNCHANGED <<switch, system_health, open_positions, daily_pnl, account_balance,
                   initial_balance, ledger_ops, now>>
    /\ undisturbed

Position == [position_id : PositionIds, quantity : PositionQuantities]

Init ==
    /\ kill_switch \in BOOLEAN
    /\ now = 0
    /\ today = 0
    /\ system_health = SystemHealth
    /\ open_positions = <<>>
    /\ daily_pnl = <<>>
    /\ account_balance = 0
    /\ initial_balance = 0
    /\ order_request = None
    /\ approval = None
    /\ log = <<>>
    /\ ledger_ops = 0
    /\ day_start_balance = 0
    /\ retry = None
    /\ inflight = [u \in Callers |-> None]
    /\ fault = None
    /\ runner = Runner
    /\ exchange = MockExchange
    /\ latch = "open"

Next ==
    \/ \E req \in OrderRequest, request_id \in RequestIds : validate_order(req, request_id)
    \/ \E module_name \in GateModules : receive_heartbeat(module_name)
    \/ \E reason \in Reasons : emergency_stop(reason)
    \/ deactivate_kill_switch
    \/ \E balance \in Balances : set_initial_balance(balance)
    \/ \E position \in Position : add_position(position)
    \/ \E position_id \in PositionIds : remove_position(position_id)
    \/ \E pnl_usdt \in PnlAmounts : record_realized_pnl(pnl_usdt)
    \/ reset_daily_tracking
    \/ Tick
    \/ NewDay

Spec == Init /\ [][Next]_vars

\* The guardian with every module sending heartbeats, on a ledger that only
\* receives its starting balance.
NextHealth ==
    \/ \E req \in OrderRequest, request_id \in RequestIds : validate_order(req, request_id)
    \/ \E module_name \in Modules : receive_heartbeat(module_name)
    \/ \E reason \in Reasons : emergency_stop(reason)
    \/ deactivate_kill_switch
    \/ \E balance \in Balances : set_initial_balance(balance)
    \/ Tick

SpecHealth == Init /\ [][NextHealth]_vars

\* a position opened beyond the guardian's limit (add_position is unguarded)
OverflowPosition ==
    [position_id : {max_concurrent_positions + 1}, quantity : PositionQuantities]

\* The guardian on a ledger whose positions are opened and closed, more of
\* them than max_concurrent_positions included.
NextPositions ==
    \/ \E req \in OrderRequest, request_id \in RequestIds : validate_order(req, request_id)
    \/ \E module_name \in GateModules : receive_heartbeat(module_name)
    \/ deactivate_kill_switch
    \/ \E balance \in Balances : set_initial_balance(balance)
    \/ \E position \in Position \cup OverflowPosition : add_position(position)
    \/ \E position \in Position \cup OverflowPosition :
            remove_position(position.position_id)
    \/ Tick

SpecPositions == Init /\ [][NextPositions]_vars

\* ------------------------------------- validate_order as interleaved threads
\* RiskManager takes no lock: a validate_order call running on a thread is a
\* sequence of steps, one per read or write of shared state, and the steps of
\* other calls and whole ledger and heartbeat operations fall between them.

\* the requests submitted by the threads
ConcurrentRequests ==
    [symbol : Symbols, side : Sides, quantity : {Float(b) : b \in Balances},
     leverage : {max_leverage}, stop_loss_pct : StopLossPcts]

\* the locals of a call that has just been entered
Call(req, request_id) ==
    [pc |-> "kill_switch", req |-> req, request_id |-> request_id,
     last_heartbeat |-> None, read_at |-> 0,
     sized |-> <<Float(0), TRUE>>, reason |-> "",
     log |-> log_request_received(request_id, req),
     seen |-> {}]

\* caller t's call moves on to the locals own (None when it returns), the
\* calls in flight on the other threads stay where they are
thread_step(t, own) ==
    /\ fault' = None
    /\ UNCHANGED execution
    /\ retry' = None
    /\ inflight' = [u \in Callers |-> IF u = t THEN noting(own) ELSE noting(inflight[u])]

\* caller t is at program point pc of a call
at(t, pc) == inflight[t] # None /\ Val(inflight[t]).pc = pc

\* a step that returns nothing to the caller yet
running == no_decision /\ log' = <<>>

validate_order_begin(t, req, request_id) ==
    /\ inflight[t] = None
    /\ running
    /\ UNCHANGED <<switch, system_health, ledger, clock>>
    /\ thread_step(t, Some(Call(req, request_id)))

\* VALIDACION 1 reads the EMERGENCY_STOP file
validate_order_kill_switch(t) ==
    /\ at(t, "kill_switch")
    /\ running
    /\ UNCHANGED <<switch, system_health, ledger, clock>>
    /\ thread_step(t, Some(
            IF is_kill_switch_active
            THEN [Val(inflight[t]) EXCEPT !.pc = "reject", !.reason = "KILL_SWITCH_ACTIVE"]
            ELSE [Val(inflight[t]) EXCEPT !.pc = "read_heartbeat"]))

\* _update_system_health reads the clock and the sentinel's last heartbeat
validate_order_read_heartbeat(t) ==
    /\ at(t, "read_heartbeat")
    /\ running
    /\ UNCHANGED <<switch, system_health, ledger, clock>>
    /\ thread_step(t, Some(
            [Val(inflight[t]) EXCEPT !.pc = "write_alive",
                                     !.last_heartbeat = system_health.sentinel_last_heartbeat,
                                     !.read_at = now]))

\* _update_system_health writes is_sentinel_alive from what it read
validate_order_write_alive(t) ==
    LET c == Val(inflight[t]) IN
    /\ at(t, "write_alive")
    /\ running
    /\ system_health' =
        [system_health EXCEPT !.is_sentinel_alive =
            IF c.last_heartbeat # None
            THEN c.read_at - Val(c.last_heartbeat) < heartbeat_timeout_seconds
            ELSE FALSE]
    /\ UNCHANGED <<switch, ledger, clock>>
    /\ thread_step(t, Some([c EXCEPT !.pc = "write_kill_switch_active"]))

\* _update_system_health copies the kill switch into the health record
validate_order_write_kill_switch_active(t) ==
    /\ at(t, "write_kill_switch_active")
    /\ running
    /\ system_health' =
        [system_health EXCEPT !.kill_switch_active = is_kill_switch_active]
    /\ UNCHANGED <<switch, ledger, clock>>
    /\ thread_step(t, Some([Val(inflight[t]) EXCEPT !.pc = "blind"]))

\* VALIDACION 3 reads is_system_blind
validate_order_blind(t) ==
    /\ at(t, "blind")
    /\ running
    /\ UNCHANGED <<switch, system_health, ledger, clock>>
    /\ thread_step(t, Some(
            IF is_system_blind(system_health)
            THEN [Val(inflight[t]) EXCEPT !.pc = "reject", !.reason = "HEARTBEAT_TIMEOUT"]
            ELSE [Val(inflight[t]) EXCEPT !.pc = "daily_loss"]))

\* VALIDACION 4 reads the daily PnL and logs the activation it decides on
validate_order_daily_loss(t) ==
    LET c == Val(inflight[t]) IN
    /\ at(t, "daily_loss")
    /\ running
    /\ UNCHANGED <<switch, system_health, ledger, clock>>
    /\ thread_step(t, Some(
            IF daily_loss_limit_reached(get_daily_pnl_pct)
            THEN [c EXCEPT !.pc = "activate",
                           !.log = @ \o log_kill_switch_activation(
                                "DAILY_LOSS_LIMIT_EXCEEDED",
                                [daily_loss_pct |-> get_daily_pnl_pct,
                                 limit |-> RatMul(RatNeg(max_daily_loss_pct), Float(100))])]
            ELSE [c EXCEPT !.pc = "sizing"]))

\* VALIDACION 4 creates the EMERGENCY_STOP file
validate_order_activate(t) ==
    /\ at(t, "activate")
    /\ running
    /\ kill_switch' = TRUE
    /\ latch' = "latched"
    /\ UNCHANGED <<system_health, ledger, clock>>
    /\ thread_step(t, Some(
            [Val(inflight[t]) EXCEPT !.pc = "reject",
                                     !.reason = "DAILY_LOSS_LIMIT_EXCEEDED"]))

\* VALIDACION 5 reads the account balance; VALIDACION 6 looks at the request
validate_order_sizing(t) ==
    LET c == Val(inflight[t])
        sized == _validate_and_adjust_position_size(c.req)
        logged == [c EXCEPT !.sized = sized,
                            !.log = @ \o log_position_adjusted(c.req, sized)]
    IN
    /\ at(t, "sizing")
    /\ running
    /\ UNCHANGED <<switch, system_health, ledger, clock>>
    /\ thread_step(t, Some(
            IF ~sized[2]
            THEN [logged EXCEPT !.pc = "reject", !.reason = "POSITION_SIZE_TOO_LARGE"]
            ELSE IF leverage_too_high(c.req)
            THEN [logged EXCEPT !.pc = "reject", !.reason = "LEVERAGE_TOO_HIGH"]
            ELSE [logged EXCEPT !.pc = "positions"]))

\* VALIDACION 7 reads the number of open positions
validate_order_positions(t) ==
    /\ at(t, "positions")
    /\ running
    /\ UNCHANGED <<switch, system_health, ledger, clock>>
    /\ thread_step(t, Some(
            IF max_positions_reached
            THEN [Val(inflight[t]) EXCEPT !.pc = "reject", !.reason = "MAX_POSITIONS_REACHED"]
            ELSE [Val(inflight[t]) EXCEPT !.pc = "approve"]))

\* _approve_order builds, logs and returns the approval
validate_order_approve(t) ==
    LET c == Val(inflight[t])
        r == _approve_order(c.request_id, c.req, c.sized[1])
    IN
    /\ at(t, "approve")
    /\ order_request' = Some(c.req)
    /\ approval' = Some(r.approval)
    /\ log' = c.log \o r.log
    /\ UNCHANGED <<switch, system_health, ledger, clock>>
    /\ thread_step(t, None)

\* _reject_order builds, logs and returns the rejection
validate_order_reject(t) ==
    LET c == Val(inflight[t])
        r == _reject_order(c.request_id, c.req, c.reason)
    IN
    /\ at(t, "reject")
    /\ order_request' = Some(c.req)
    /\ approval' = Some(r.approval)
    /\ log' = c.log \o r.log
    /\ UNCHANGED <<switch, system_health, ledger, clock>>
    /\ thread_step(t, None)

NextThreads ==
    \/ \E t \in Callers, req \in ConcurrentRequests, request_id \in RequestIds :
            validate_order_begin(t, req, request_id)
    \/ \E t \in Callers : validate_order_kill_switch(t)
    \/ \E t \in Callers : validate_order_read_heartbeat(t)
    \/ \E t \in Callers : validate_order_write_alive(t)
    \/ \E t \in Callers : validate_order_write_kill_switch_active(t)
    \/ \E t \in Callers : validate_order_blind(t)
    \/ \E t \in Callers : validate_order_daily_loss(t)
    \/ \E t \in Callers : validate_order_activate(t)
    \/ \E t \in Callers : validate_order_sizing(t)
    \/ \E t \in Callers : validate_order_positions(t)
    \/ \E t \in Callers : validate_order_approve(t)
    \/ \E t \in Callers : validate_order_reject(t)
    \/ receive_heartbeat("SENTINEL")
    \/ \E balance \in Balances : set_initial_balance(balance)
    \/ \E pnl_usdt \in PnlAmounts : record_realized_pnl(pnl_usdt)
    \/ \E position \in Position : add_position(position)
    \/ \E position \in Position : remove_position(position.position_id)

SpecThreads == Init /\ [][NextThreads]_vars

\* The interleaved validations next to the manual stop.
NextThreadsStop ==
    \/ \E t \in Callers, req \in ConcurrentRequests, request_id \in RequestIds :
            validate_order_begin(t, req, request_id)
    \/ \E t \in Callers : validate_order_kill_switch(t)
    \/ \E t \in Callers : validate_order_read_heartbeat(t)
    \/ \E t \in Callers : validate_order_write_alive(t)
    \/ \E t \in Callers : validate_order_write_kill_switch_active(t)
    \/ \E t \in Callers : validate_order_blind(t)
    \/ \E t \in Callers : validate_order_daily_loss(t)
    \/ \E t \in Callers : validate_order_activate(t)
    \/ \E t \in Callers : validate_order_sizing(t)
    \/ \E t \in Callers : validate_order_positions(t)
    \/ \E t \in Callers : validate_order_approve(t)
    \/ \E t \in Callers : validate_order_reject(t)
    \/ receive_heartbeat("SENTINEL")
    \/ \E balance \in Balances : set_initial_balance(balance)
    \/ \E pnl_usdt \in PnlAmounts : record_realized_pnl(pnl_usdt)
    \/ \E reason \in Reasons : emergency_stop(reason)

SpecThreadsStop == Init /\ [][NextThreadsStop]_vars

\* --------------------------------------- approvals waiting to be executed
\* A caller holds the approval it received until the order is filled and the
\* position is reported to the ledger with add_position.

submit_order(t, req, request_id) ==
    LET v == validate(req, request_id) IN
    /\ inflight[t] = None
    /\ order_request' = Some(req)
    /\ approval' = Some(v.approval)
    /\ system_health' = v.health
    /\ kill_switch' = (kill_switch \/ v.activate)
    /\ latch' = IF v.activate THEN "latched" ELSE latch
    /\ log' = log_request_received(request_id, req) \o v.log
    /\ retry' = None
    /\ fault' = None
    /\ inflight' =
        [inflight EXCEPT ![t] =
            IF v.approval.approved
            THEN Some([pc |-> "approved", req |-> req, request_id |-> request_id])
            ELSE None]
    /\ UNCHANGED <<ledger, clock, execution>>

\* the fill of caller t's approved order is reported as a new position
report_position(t, position) ==
    /\ at(t, "approved")
    /\ position.position_id \notin DOMAIN open_positions
    /\ open_positions' =
        [id \in DOMAIN open_positions \cup {position.position_id} |->
            IF id = position.position_id THEN position ELSE open_positions[id]]
    /\ inflight' = [inflight EXCEPT ![t] = None]
    /\ log' = <<>>
    /\ no_decision
    /\ retry' = None
    /\ fault' = None
    /\ UNCHANGED <<switch, system_health, daily_pnl, account_balance,
                   initial_balance, ledger_ops, day_start_balance, clock, execution>>

\* The guardian asked by several callers, the ledger receiving a position only
\* for an approved order.
NextPending ==
    \/ \E t \in Callers, req \in OrderRequest, request_id \in RequestIds :
            submit_order(t, req, request_id)
    \/ \E t \in Callers, position \in Position \cup OverflowPosition :
            report_position(t, position)
    \/ \E position \in Position \cup OverflowPosition :
            remove_position(position.position_id)
    \/ receive_heartbeat("SENTINEL")
    \/ \E balance \in Balances : set_initial_balance(balance)

SpecPending == Init /\ [][NextPending]_vars

\* ------------------------------------------------- the ledger over the days
\* the state once the account has been funded with set_initial_balance
InitFunded ==
    /\ kill_switch = FALSE
    /\ now = 0
    /\ today = 0
    /\ system_health = SystemHealth
    /\ open_positions = <<>>
    /\ daily_pnl = <<>>
    /\ account_balance \in Balances
    /\ initial_balance = account_balance
    /\ day_start_balance = account_balance
    /\ order_request = None
    /\ approval = None
    /\ log = <<>>
    /\ ledger_ops = 0
    /\ retry = None
    /\ inflight = [u \in Callers |-> None]
    /\ fault = None
    /\ runner = Runner
    /\ exchange = MockExchange
    /\ latch = "open"

\* the PnL realized by closing positions, small losses included
ClosedPnlAmounts == PnlAmounts \cup {-20}

\* The guardian on a funded account whose PnL is realized over several days.
NextLedger ==
    \/ \E req \in OrderRequest, request_id \in RequestIds : validate_order(req, request_id)
    \/ receive_heartbeat("SENTINEL")
    \/ \E balance \in Balances : set_initial_balance(balance)
    \/ \E pnl_usdt \in ClosedPnlAmounts : record_realized_pnl(pnl_usdt)
    \/ reset_daily_tracking
    \/ NewDay

SpecLedger == InitFunded /\ [][NextLedger]_vars

\* ------------------------------------------- validate_order when a step fails
\* The EMERGENCY_STOP file is read with Path.exists() and created with
\* Path.touch(); validate_order wraps neither call in a try block.

\* The steps that fail and what the failure does. Path.exists() on a path that
\* cannot be examined raises OSError under pathlib up to Python 3.11 and
\* answers False from Python 3.12 on; Path.touch() raises OSError.
FaultCases ==
    {[at |-> "is_kill_switch_active", raised |-> TRUE],
     [at |-> "is_kill_switch_active", raised |-> FALSE],
     [at |-> "activate_kill_switch", raised |-> TRUE]}

\* validate_order when every read of the EMERGENCY_STOP file answers False
validate_switch_unreadable(req, request_id) ==
    LET health == [_update_system_health EXCEPT !.kill_switch_active = FALSE] IN
    IF is_system_blind(health)
    THEN outcome(_reject_order(request_id, req, "HEARTBEAT_TIMEOUT"),
                 health, FALSE, <<>>)
    ELSE IF daily_loss_limit_reached(get_daily_pnl_pct)
    THEN daily_loss_trip(req, request_id, health)
    ELSE gates_from_sizing(req, request_id, health)

\* an exception leaves validate_order: the caller receives no OrderApproval
raise_from_validate_order(req, request_id, health, logged) ==
    /\ order_request' = Some(req)
    /\ approval' = None
    /\ system_health' = health
    /\ log' = log_request_received(request_id, req) \o logged
    /\ UNCHANGED switch

validate_order_fault(req, request_id, failure) ==
    /\ CASE failure.at = "is_kill_switch_active" /\ failure.raised ->
                raise_from_validate_order(req, request_id, system_health, <<>>)
          [] failure.at = "is_kill_switch_active" /\ ~failure.raised ->
                LET v == validate_switch_unreadable(req, request_id) IN
                /\ order_request' = Some(req)
                /\ approval' = Some(v.approval)
                /\ system_health' = v.health
                /\ kill_switch' = (kill_switch \/ v.activate)
                /\ latch' = IF v.activate THEN "latched" ELSE latch
                /\ log' = log_request_received(request_id, req) \o v.log
          [] failure.at = "activate_kill_switch" ->
                /\ validate(req, request_id).activate
                /\ raise_from_validate_order(req, request_id,
                        validate(req, request_id).health,
                        log_kill_switch_activation(
                            "DAILY_LOSS_LIMIT_EXCEEDED",
                            [daily_loss_pct |-> get_daily_pnl_pct,
                             limit |-> RatMul(RatNeg(max_daily_loss_pct), Float(100))]))
    /\ fault' = Some(failure)
    /\ UNCHANGED execution
    /\ retry' = None
    /\ inflight' = [u \in Callers |-> noting(inflight[u])]
    /\ UNCHANGED <<ledger, clock>>

\* The guardian on a file system where reading or creating the EMERGENCY_STOP
\* file can fail.
NextFaults ==
    \/ \E req \in OrderRequest, request_id \in RequestIds : validate_order(req, request_id)
    \/ \E req \in OrderRequest, request_id \in RequestIds, failure \in FaultCases :
            validate_order_fault(req, request_id, failure)
    \/ receive_heartbeat("SENTINEL")
    \/ \E reason \in Reasons : emergency_stop(reason)
    \/ deactivate_kill_switch
    \/ \E balance \in Balances : set_initial_balance(balance)
    \/ \E pnl_usdt \in PnlAmounts : record_realized_pnl(pnl_usdt)
    \/ Tick

SpecFaults == Init /\ [][NextFaults]_vars

\* ------------------------------------------------- MockExchange.place_order

\* _get_simulated_price: the price the exchange quotes
Prices == {1, 2}

\* the position held in a symbol, or the default of dict.get
get_position_or_default(ex, symbol) ==
    IF ex.positions[symbol] = None
    THEN [qty |-> Float(0), entry_price |-> Float(0)]
    ELSE Val(ex.positions[symbol])

\* place_order counts the trade, then executes or raises:
\* [exchange |-> the exchange afterwards, raised |-> an exception left the call]
place_order(ex, symbol, side, quantity, price) ==
    LET costo == RatMul(quantity, price)
        counted == [ex EXCEPT !.trade_count = @ + 1]
        current_pos == get_position_or_default(ex, symbol)
    IN
    IF side = "BUY"
    THEN IF RatLt(counted.usdt_balance, costo)
         THEN [exchange |-> counted, raised |-> TRUE]
         ELSE
         LET total_qty == RatAdd(current_pos.qty, quantity)
             avg_price ==
                IF RatLt(Float(0), total_qty)
                THEN RatDiv(RatAdd(RatMul(current_pos.qty, current_pos.entry_price),
                                   RatMul(quantity, price)),
                            total_qty)
                ELSE price
         IN  [exchange |->
                [counted EXCEPT !.usdt_balance = RatSub(@, costo),
                                !.positions[symbol] =
                                    Some([qty |-> total_qty, entry_price |-> avg_price])],
              raised |-> FALSE]
    ELSE IF side = "SELL"
    THEN IF RatLt(current_pos.qty, quantity)
         THEN [exchange |-> counted, raised |-> TRUE]
         ELSE
         LET raw_pnl == RatMul(RatSub(price, current_pos.entry_price), quantity)
             retorno_total == RatAdd(RatMul(current_pos.entry_price, quantity), raw_pnl)
             paid == [counted EXCEPT !.usdt_balance = RatAdd(@, retorno_total)]
             qty == RatSub(current_pos.qty, quantity)
         IN  IF ex.positions[symbol] = None
             THEN [exchange |-> paid, raised |-> TRUE]
             ELSE [exchange |->
                    [paid EXCEPT !.positions[symbol] =
                        IF RatLe(qty, Float(0))
                        THEN None
                        ELSE Some([current_pos EXCEPT !.qty = qty])],
                   raised |-> FALSE]
    ELSE [exchange |-> counted, raised |-> TRUE]

\* ------------------------------------------------------------- Executioner

Actions == {"BUY", "SELL", "HOLD"}
Confidences == {40, 60}
ExecutedQuantities == {Float(0), Float(1)}

\* the orders handed to ejecutar_disparo
Orden ==
    [symbol : Symbols, action : Actions, confidence : Confidences,
     quantity : ExecutedQuantities, guardian_signature : {None}]

\* ejecutar_disparo reaches connector.place_order
is_executable(orden) ==
    /\ orden.action \in {"BUY", "SELL"}
    /\ ~(orden.confidence < 50)

\* the connector after ejecutar_disparo(orden); an exception of place_order is
\* caught and logged
disparo(ex, orden, price) ==
    IF is_executable(orden)
    THEN place_order(ex, orden.symbol, orden.action, orden.quantity, Float(price)).exchange
    ELSE ex

\* bound on the trades sent to the exchange
MaxTrades == 2

ejecutar_disparo(orden, price) ==
    /\ exchange.trade_count < MaxTrades
    /\ exchange' = disparo(exchange, orden, price)
    /\ UNCHANGED runner
    /\ log' = <<>>
    /\ no_decision
    /\ retry' = None
    /\ fault' = None
    /\ inflight' = [u \in Callers |-> noting(inflight[u])]
    /\ UNCHANGED <<switch, system_health, ledger, clock>>

\* ------------------------------------------------------- system_runner.main

\* C and D of a cycle: Balam's expediente, then the loop's own heartbeat
main_heartbeat(accion, confianza) ==
    /\ runner.pc = "balam"
    /\ runner' = [pc |-> "guardian",
                  expediente |-> Some([symbol |-> "BTCUSDT", action |-> accion,
                                       confidence |-> confianza])]
    /\ system_health' = heartbeat(system_health, "SYSTEM_RUNNER", now)
    /\ UNCHANGED exchange
    /\ log' = <<>>
    /\ no_decision
    /\ retry' = None
    /\ fault' = None
    /\ inflight' = [u \in Callers |-> noting(inflight[u])]
    /\ UNCHANGED <<switch, ledger, clock>>

\* the request the loop builds from the exchange balance and the last close
runner_request(accion, precio_actual) ==
    LET saldo == exchange.usdt_balance
        cantidad_estimada ==
            RatDiv(RatMul(saldo, max_risk_per_trade_pct), Float(precio_actual))
    IN  [symbol |-> "BTCUSDT", side |-> accion,
         quantity |-> round(cantidad_estimada, 6),
         leverage |-> 1, stop_loss_pct |-> settings_stop_loss_pct]

\* the loop goes back to sleep without asking the guardian
main_skip ==
    /\ log' = <<>>
    /\ no_decision
    /\ UNCHANGED <<switch, system_health, exchange>>

\* D and E of a cycle: kill switch, guardian, executor
main_guardian(precio_actual, price, request_id) ==
    LET expediente == Val(runner.expediente)
        req == runner_request(expediente.action, precio_actual)
        v == validate(req, request_id)
    IN
    /\ runner.pc = "guardian"
    /\ exchange.trade_count < MaxTrades
    /\ runner' = Runner
    /\ IF is_kill_switch_active
       THEN main_skip
       ELSE IF ~(expediente.action \in {"BUY", "SELL"} /\ expediente.confidence >= 50)
       THEN main_skip
       ELSE IF ~RatLt(Float(0), req.quantity)
       THEN main_skip
       ELSE /\ order_request' = Some(req)
            /\ approval' = Some(v.approval)
            /\ system_health' = v.health
            /\ kill_switch' = (kill_switch \/ v.activate)
            /\ latch' = IF v.activate THEN "latched" ELSE latch
            /\ log' = log_request_received(request_id, req) \o v.log
            /\ exchange' =
                IF v.approval.approved
                THEN disparo(exchange,
                        [symbol |-> expediente.symbol, action |-> expediente.action,
                         confidence |-> expediente.confidence,
                         quantity |-> Val(v.approval.adjusted_quantity),
                         guardian_signature |-> v.approval.signature],
                        price)
                ELSE exchange
    /\ retry' = None
    /\ fault' = None
    /\ inflight' = [u \in Callers |-> noting(inflight[u])]
    /\ UNCHANGED <<ledger, clock>>

\* The deployed program: the main loop is the guardian's only caller.
NextRunner ==
    \/ \E accion \in Actions, confianza \in Confidences : main_heartbeat(accion, confianza)
    \/ \E precio_actual \in Prices, price \in Prices, request_id \in RequestIds :
            main_guardian(precio_actual, price, request_id)
    \/ deactivate_kill_switch
    \/ Tick
    \/ NewDay

SpecRunner == Init /\ [][NextRunner]_vars

\* the positions reported to the ledger: Position.quantity is any float
ReportedPosition == [position_id : {1}, quantity : {0, 1}]

\* The executor next to a guardian that receives the sentinel's heartbeats: the
\* main loop, callers that hand orders to the executor themselves, and the
\* ledger the fills are reported to.
NextExecutor ==
    \/ \E accion \in Actions, confianza \in Confidences : main_heartbeat(accion, confianza)
    \/ \E precio_actual \in Prices, price \in Prices, request_id \in RequestIds :
            main_guardian(precio_actual, price, request_id)
    \/ \E orden \in Orden, price \in Prices : ejecutar_disparo(orden, price)
    \/ receive_heartbeat("SENTINEL")
    \/ \E balance \in Balances : set_initial_balance(balance)
    \/ \E position \in ReportedPosition : add_position(position)
    \/ \E position \in ReportedPosition : remove_position(position.position_id)

SpecExecutor == Init /\ [][NextExecutor]_vars


RejectedWith(a, reason) ==
    /\ a # None
    /\ ~Val(a).approved
    /\ Val(a).rejection_reason = Some(reason)

IsApproved(a) == a # None /\ Val(a).approved

\* a SENTINEL heartbeat was received less than heartbeat_timeout_seconds ago
SentinelFresh ==
    /\ system_health.sentinel_last_heartbeat # None
    /\ now - Val(system_health.sentinel_last_heartbeat) < heartbeat_timeout_seconds

TodayPnl == IF today \in DOMAIN daily_pnl THEN daily_pnl[today] ELSE 0

\* daily_pnl / initial_balance * 100 <= -max_daily_loss_pct * 100, in whole numbers
DailyLossBreached ==
    \/ /\ initial_balance > 0
       /\ TodayPnl * max_daily_loss_pct[2] <= (0 - max_daily_loss_pct[1]) * initial_balance
    \/ /\ initial_balance < 0
       /\ TodayPnl * max_daily_loss_pct[2] >= (0 - max_daily_loss_pct[1]) * initial_balance

\* ------------------------------------------------------------------ claims

\* C1: whenever validate_order is called while the kill switch is active, it
\* returns a rejection with reason KILL_SWITCH_ACTIVE, whatever the request,
\* the ledger and the system health are.
C1_KillSwitchVeto ==
    [][(kill_switch /\ approval' # None)
        => RejectedWith(approval', "KILL_SWITCH_ACTIVE")]_vars

\* C1 witness: a KILL_SWITCH_ACTIVE rejection of a call that every other gate
\* would have let through.
C1_Witness ==
    /\ kill_switch
    /\ RejectedWith(approval, "KILL_SWITCH_ACTIVE")
    /\ SentinelFresh
    /\ ~DailyLossBreached
    /\ account_balance > 0
    /\ Val(order_request).leverage <= max_leverage
    /\ Cardinality(DOMAIN open_positions) < max_concurrent_positions

\* C2 as claimed: once the daily-loss gate has activated the kill switch, every
\* validate_order call returns KILL_SWITCH_ACTIVE (the activating call itself
\* returns DAILY_LOSS_LIMIT_EXCEEDED).
C2_EveryLaterCallVetoed ==
    (latch # "open" /\ approval # None)
        => \/ RejectedWith(approval, "KILL_SWITCH_ACTIVE")
           \/ RejectedWith(approval, "DAILY_LOSS_LIMIT_EXCEEDED")

\* a validate_order call with the kill switch inactive, the sentinel alive and
\* the daily loss at or beyond the limit
C2_Trip ==
    (~kill_switch /\ SentinelFresh /\ DailyLossBreached /\ approval' # None)
        => /\ kill_switch'
           /\ RejectedWith(approval', "DAILY_LOSS_LIMIT_EXCEEDED")

\* C2 amended: a validate_order call made with the kill switch inactive, the
\* sentinel alive and daily_pnl_pct <= -max_daily_loss_pct*100 (boundary
\* included) activates the kill switch and returns DAILY_LOSS_LIMIT_EXCEEDED;
\* from then until a manual deactivate_kill_switch the switch is active and
\* every validate_order call returns KILL_SWITCH_ACTIVE.
C2_DailyLossLatch ==
    /\ [][C2_Trip]_vars
    /\ [](latch = "latched" =>
            /\ kill_switch
            /\ approval # None =>
                \/ RejectedWith(approval, "KILL_SWITCH_ACTIVE")
                \/ /\ RejectedWith(approval, "DAILY_LOSS_LIMIT_EXCEEDED")
                   /\ DailyLossBreached)

\* C2 witness: the activating call, made with the daily loss exactly at the limit.
C2_Witness ==
    /\ RejectedWith(approval, "DAILY_LOSS_LIMIT_EXCEEDED")
    /\ kill_switch
    /\ initial_balance > 0
    /\ TodayPnl * max_daily_loss_pct[2] = (0 - max_daily_loss_pct[1]) * initial_balance

\* C3: an active kill switch stays active across every operation except
\* deactivate_kill_switch, and no validate_order call made while it is active
\* returns an approval.
C3_KillSwitchStays ==
    [][kill_switch =>
        /\ kill_switch' \/ deactivate_kill_switch
        /\ ~IsApproved(approval')]_vars

\* C3 witness: the switch was latched by the daily-loss gate, the day has
\* changed so that the loss is no longer counted, and an order is still vetoed.
C3_Witness ==
    /\ latch = "latched"
    /\ kill_switch
    /\ today > 0
    /\ ~DailyLossBreached
    /\ SentinelFresh
    /\ RejectedWith(approval, "KILL_SWITCH_ACTIVE")

\* the verdict the gate order kill switch, heartbeat, daily loss, position
\* sizing, leverage, open positions gives a call made in the current state
C4_FirstFailingGate(req) ==
    IF kill_switch THEN "KILL_SWITCH_ACTIVE"
    ELSE IF ~SentinelFresh THEN "HEARTBEAT_TIMEOUT"
    ELSE IF DailyLossBreached THEN "DAILY_LOSS_LIMIT_EXCEEDED"
    ELSE IF ~_validate_and_adjust_position_size(req)[2] THEN "POSITION_SIZE_TOO_LARGE"
    ELSE IF req.leverage > max_leverage THEN "LEVERAGE_TOO_HIGH"
    ELSE IF Cardinality(DOMAIN open_positions) >= max_concurrent_positions
    THEN "MAX_POSITIONS_REACHED"
    ELSE "APPROVED"

\* C4: every validate_order call returns the verdict of the earliest failing
\* gate (an approval when none fails); the gates after it have no effect: the
\* kill switch is activated only by a DAILY_LOSS_LIMIT_EXCEEDED verdict, and
\* the health record is not refreshed by a KILL_SWITCH_ACTIVE verdict.
C4_GateOrder ==
    [][approval' # None =>
        LET verdict == C4_FirstFailingGate(Val(order_request')) IN
        /\ IF verdict = "APPROVED"
           THEN IsApproved(approval')
           ELSE RejectedWith(approval', verdict)
        /\ kill_switch' = (kill_switch \/ verdict = "DAILY_LOSS_LIMIT_EXCEEDED")
        /\ verdict = "KILL_SWITCH_ACTIVE" => system_health' = system_health]_vars

\* C4 witness: a HEARTBEAT_TIMEOUT rejection of a call that also breaches the
\* daily loss limit, the leverage limit and the open-position limit; the kill
\* switch is left inactive.
C4_Witness ==
    /\ RejectedWith(approval, "HEARTBEAT_TIMEOUT")
    /\ ~kill_switch
    /\ DailyLossBreached
    /\ Val(order_request).leverage > max_leverage
    /\ Cardinality(DOMAIN open_positions) >= max_concurrent_positions

\* C5: with the kill switch inactive, validate_order returns HEARTBEAT_TIMEOUT
\* exactly when no SENTINEL heartbeat was received within
\* heartbeat_timeout_seconds of the validation, whatever EXECUTOR and BALAM
\* have sent.
C5_BlindIffSentinelStale ==
    [][(~kill_switch /\ approval' # None) =>
        (RejectedWith(approval', "HEARTBEAT_TIMEOUT") <=> ~SentinelFresh)]_vars

\* C5 witness: after a timeout has elapsed a fresh SENTINEL heartbeat lets an
\* order through, while EXECUTOR never sent a heartbeat and BALAM's is stale.
C5_Witness ==
    /\ IsApproved(approval)
    /\ now >= heartbeat_timeout_seconds
    /\ system_health.sentinel_last_heartbeat # None
    /\ Val(system_health.sentinel_last_heartbeat) > 0
    /\ system_health.executor_last_heartbeat = None
    /\ system_health.balam_last_heartbeat = Some(0)

\* C6: every approval carries 0 < adjusted_quantity <= the requested quantity.
C6_ApprovedQuantityPositive ==
    IsApproved(approval) =>
        /\ RatLt(Float(0), Val(Val(approval).adjusted_quantity))
        /\ RatLe(Val(Val(approval).adjusted_quantity), Val(order_request).quantity)

\* C7: every OrderApproval is either an approval with signature and
\* adjusted_quantity set and both rejection fields null, or a rejection with
\* both rejection fields set and signature and adjusted_quantity null.
C7_ExactlyOneGroup ==
    approval # None =>
        LET a == Val(approval) IN
        \/ /\ a.approved
           /\ a.signature # None /\ a.adjusted_quantity # None
           /\ a.rejection_reason = None /\ a.rejection_details = None
        \/ /\ ~a.approved
           /\ a.rejection_reason # None /\ a.rejection_details # None
           /\ a.signature = None /\ a.adjusted_quantity = None

\* C7 witness: a rejection issued after the position-sizing gate had computed
\* a quantity for the request.
C7_Witness ==
    /\ RejectedWith(approval, "LEVERAGE_TOO_HIGH")
    /\ account_balance > 0

\* balance * max_risk_per_trade_pct / stop_loss_pct, the admissible quantity
C8_Admissible(req) ==
    Rat(account_balance * max_risk_per_trade_pct[1] * req.stop_loss_pct[2],
        max_risk_per_trade_pct[2] * req.stop_loss_pct[1])

\* C8: an approved quantity is min(requested, admissible): unchanged when it
\* is within the admissible quantity, the admissible quantity when it is
\* larger; and no request is rejected for its size while a positive quantity
\* is admissible.
C8_ApprovedIsMin ==
    approval # None =>
        LET req == Val(order_request)
            adm == C8_Admissible(req)
        IN  /\ IsApproved(approval) =>
                Val(Val(approval).adjusted_quantity) =
                    IF RatLe(req.quantity, adm) THEN req.quantity ELSE adm
            /\ RatLt(Float(0), adm) => ~RejectedWith(approval, "POSITION_SIZE_TOO_LARGE")

\* C8 witness: an approval clamped to a positive admissible quantity below the
\* requested one.
C8_Witness ==
    /\ IsApproved(approval)
    /\ RatLt(Float(0), Val(Val(approval).adjusted_quantity))
    /\ RatLt(Val(Val(approval).adjusted_quantity), Val(order_request).quantity)

\* C9: a call that reaches the sizing gate with a non-positive admissible
\* quantity is rejected with POSITION_SIZE_TOO_LARGE.
C9_NonPositiveSizeRejected ==
    (/\ approval # None
     /\ RatLe(C8_Admissible(Val(order_request)), Float(0))
     /\ ~RejectedWith(approval, "KILL_SWITCH_ACTIVE")
     /\ ~RejectedWith(approval, "HEARTBEAT_TIMEOUT")
     /\ ~RejectedWith(approval, "DAILY_LOSS_LIMIT_EXCEEDED"))
        => RejectedWith(approval, "POSITION_SIZE_TOO_LARGE")

\* prices at which an approved order is filled
EntryPrices == {1, 100}

\* C10: for every approval and every entry price,
\* adjusted_quantity * entry_price * stop_loss_pct <=
\* account_balance * max_risk_per_trade_pct.
C10_RiskWithinBudget ==
    IsApproved(approval) =>
        \A entry_price \in EntryPrices :
            RatLe(RatMul(RatMul(Val(Val(approval).adjusted_quantity), Float(entry_price)),
                         Val(order_request).stop_loss_pct),
                  RatMul(Float(account_balance), max_risk_per_trade_pct))

\* C11: a validate_order call made with the kill switch inactive, the sentinel
\* alive and the daily loss within the limit is rejected with
\* LEVERAGE_TOO_HIGH exactly when the requested leverage is above
\* max_leverage; a leverage equal to max_leverage is not rejected for leverage.
C11_LeverageBoundary ==
    [][(/\ approval' # None
        /\ ~kill_switch /\ SentinelFresh /\ ~DailyLossBreached)
        => (RejectedWith(approval', "LEVERAGE_TOO_HIGH")
                <=> Val(order_request').leverage > max_leverage)]_vars

\* C11 witness: a request with leverage exactly max_leverage went through the
\* leverage gate and was approved for a positive quantity.
C11_Witness ==
    /\ IsApproved(approval)
    /\ Val(order_request).leverage = max_leverage
    /\ RatLt(Float(0), Val(Val(approval).adjusted_quantity))

C13_Recorded(field, value) ==
    \E i \in DOMAIN log : field \in DOMAIN log[i] /\ log[i][field] = value

\* C13: every validate_order call leaves, with its decision, forensic records
\* that carry the full request (symbol, side, quantity, leverage, stop loss),
\* the full response (request id, verdict, reason or adjusted quantity and
\* signature) and the risk context at decision time (balance, daily loss,
\* open-position count, system health).
C13_DecisionFullyRecorded ==
    approval # None =>
        LET req == Val(order_request)
            a == Val(approval)
        IN  /\ C13_Recorded("request_id", a.request_id)
            /\ C13_Recorded("symbol", req.symbol)
            /\ C13_Recorded("side", req.side)
            /\ C13_Recorded("quantity", req.quantity)
            /\ C13_Recorded("leverage", req.leverage)
            /\ C13_Recorded("stop_loss_pct", req.stop_loss_pct)
            /\ IF a.approved
               THEN /\ C13_Recorded("approved", TRUE)
                    /\ C13_Recorded("adjusted_quantity", Val(a.adjusted_quantity))
                    /\ C13_Recorded("signature", Val(a.signature))
               ELSE /\ C13_Recorded("kind", "REJECTION")
                    /\ C13_Recorded("reason", Val(a.rejection_reason))
            /\ C13_Recorded("account_balance", account_balance)
            /\ C13_Recorded("daily_loss_pct", get_daily_pnl_pct)
            /\ C13_Recorded("open_positions", get_open_positions_count)
            /\ C13_Recorded("system_health", system_health)

\* emergency_stop was the operation just made
C14_Stopped ==
    /\ approval = None
    /\ log # <<>>
    /\ log[1].kind = "KILL_SWITCH_ACTIVATED"

\* C14: emergency_stop(reason), whatever the state it is called in (it has no
\* precondition and reads no gate), leaves the kill switch active and writes
\* one critical KILL_SWITCH_ACTIVATED record with its reason, touching neither
\* the ledger nor the health record; and the validate_order call that follows
\* it is rejected with KILL_SWITCH_ACTIVE.
C14_EmergencyStop ==
    [][/\ \A reason \in Reasons : emergency_stop(reason) =>
            /\ kill_switch'
            /\ Len(log') = 1
            /\ log'[1].kind = "KILL_SWITCH_ACTIVATED"
            /\ log'[1].reason = reason
            /\ UNCHANGED <<system_health, ledger>>
       /\ (C14_Stopped /\ approval' # None)
            => RejectedWith(approval', "KILL_SWITCH_ACTIVE")]_vars

\* C14 witness: emergency_stop has just been called in a state where every
\* gate would have let an order through, and the daily-loss gate never fired.
C14_Witness ==
    /\ C14_Stopped
    /\ kill_switch
    /\ latch = "open"
    /\ SentinelFresh
    /\ ~DailyLossBreached
    /\ account_balance > 0
    /\ Cardinality(DOMAIN open_positions) < max_concurrent_positions

\* the timestamp and the liveness flag a heartbeat of module_name writes
C15_Stamp(module_name) ==
    CASE module_name = "SENTINEL" -> {"sentinel_last_heartbeat"}
      [] module_name = "EXECUTOR" -> {"executor_last_heartbeat"}
      [] module_name = "BALAM" -> {"balam_last_heartbeat"}
      [] OTHER -> {}

C15_Flag(module_name) ==
    CASE module_name = "SENTINEL" -> {"is_sentinel_alive"}
      [] module_name = "EXECUTOR" -> {"is_executor_alive"}
      [] module_name = "BALAM" -> {"is_balam_alive"}
      [] OTHER -> {}

\* times at which a heartbeat can be repeated
C15_Times == {t \in 0 .. (MaxTicks * TickSeconds) : t % TickSeconds = 0}

\* C15: every receive_heartbeat(module) step sets that module's last-seen
\* timestamp to now and its liveness flag to true and changes nothing else
\* in SystemHealth, in the ledger or of the kill switch; receiving the same
\* heartbeat again at once gives the same state, and receiving it again
\* later gives the same state except for the timestamp, which is the later
\* time.
C15_HeartbeatIdempotent ==
    [][\A module_name \in Modules : receive_heartbeat(module_name) =>
        LET h == system_health'
            stamp == C15_Stamp(module_name)
            flag == C15_Flag(module_name)
        IN  /\ \A f \in DOMAIN h \ (stamp \cup flag) : h[f] = system_health[f]
            /\ \A f \in stamp : h[f] = Some(now)
            /\ \A f \in flag : h[f] = TRUE
            /\ UNCHANGED <<kill_switch, latch, ledger, clock>>
            /\ heartbeat(h, module_name, now) = h
            /\ \A t \in C15_Times : t >= now =>
                    LET again == heartbeat(h, module_name, t) IN
                    /\ \A f \in DOMAIN h \ stamp : again[f] = h[f]
                    /\ \A f \in stamp : again[f] = Some(t)]_vars

\* C15 witness: a SENTINEL heartbeat was received a tick after the EXECUTOR
\* one, whose timestamp it left as it was.
C15_Witness ==
    /\ approval = None
    /\ system_health.is_sentinel_alive
    /\ system_health.sentinel_last_heartbeat = Some(now)
    /\ now > 0
    /\ system_health.executor_last_heartbeat = Some(0)
    /\ system_health.balam_last_heartbeat = None

\* a heartbeat stamped last was received less than heartbeat_timeout_seconds ago
C16_Fresh(last) ==
    last # None /\ now - Val(last) < heartbeat_timeout_seconds

\* C16: after validate_order has refreshed the health record (every call not
\* vetoed by the kill switch), the liveness flag of each of SENTINEL, EXECUTOR
\* and BALAM is true exactly when a heartbeat of that module was received
\* within heartbeat_timeout_seconds; a module never heard of is not alive.
C16_FlagsFollowHeartbeats ==
    (approval # None /\ ~RejectedWith(approval, "KILL_SWITCH_ACTIVE")) =>
        /\ system_health.is_sentinel_alive
                <=> C16_Fresh(system_health.sentinel_last_heartbeat)
        /\ system_health.is_executor_alive
                <=> C16_Fresh(system_health.executor_last_heartbeat)
        /\ system_health.is_balam_alive
                <=> C16_Fresh(system_health.balam_last_heartbeat)

\* the records l hold a kill-switch activation
C17_ActivationLogged(l) ==
    \E i \in DOMAIN l : l[i].kind = "KILL_SWITCH_ACTIVATED"

\* C17: a validate_order call made while the kill switch is active and the
\* daily loss limit is still breached is a plain KILL_SWITCH_ACTIVE rejection:
\* it writes no activation record and changes neither the switch nor the
\* health record; and the daily-loss gate activates the switch only when it
\* is inactive, never a second time before a manual deactivation.
C17_LatchIdempotent ==
    [][approval' # None =>
        /\ (kill_switch /\ DailyLossBreached) =>
                /\ RejectedWith(approval', "KILL_SWITCH_ACTIVE")
                /\ ~C17_ActivationLogged(log')
                /\ UNCHANGED <<kill_switch, latch, system_health>>
        /\ C17_ActivationLogged(log') =>
                /\ ~kill_switch /\ kill_switch'
                /\ latch # "latched" /\ latch' = "latched"]_vars

\* C17 witness: the daily-loss gate has latched the switch, the loss is still
\* beyond the limit, the sentinel is alive, and a further call was refused.
C17_Witness ==
    /\ latch = "latched"
    /\ kill_switch
    /\ DailyLossBreached
    /\ SentinelFresh
    /\ RejectedWith(approval, "KILL_SWITCH_ACTIVE")

\* C18: gates 3 and 4 of a validate_order call run as a thread among other
\* calls and ledger updates act as one atomic unit, as they do in every
\* serial execution: the quantity a call is sized to is the one the two gates
\* decide atomically in one of the states the ledger went through between the
\* call's reading of the daily loss and its sizing; and the daily-loss gate
\* creates the kill switch only if no other call has created it already.
C18_AtomicValidation ==
    [][\A t \in Callers :
        /\ (at(t, "sizing") /\ ~at(t, "sizing")') =>
                <<"SIZED", Val(inflight'[t]).sized[1]>>
                    \in Val(inflight[t]).seen \cup {atomic_decision(Val(inflight[t]).req)}
        /\ (at(t, "activate") /\ ~at(t, "activate")') => ~kill_switch]_vars

\* C19: whenever no validate_order call is in flight, a sentinel whose last
\* heartbeat was received less than heartbeat_timeout_seconds ago is alive:
\* no health refresh running next to receive_heartbeat("SENTINEL") loses it.
C19_HeartbeatNotLost ==
    (\A t \in Callers : inflight[t] = None) =>
        (SentinelFresh => system_health.is_sentinel_alive)

\* C20: a validate_order call in which an internal step failed delivers a
\* rejection to its caller: no exception leaves the call and the order is not
\* approved.
C20_FailsClosed ==
    fault # None =>
        /\ ~Val(fault).raised
        /\ approval # None
        /\ ~Val(approval).approved

\* C21: get_daily_pnl_pct is the PnL realized on the current day as a percentage
\* of the balance the account had when the current day began, whatever
\* set_initial_balance, record_realized_pnl, reset_daily_tracking and day
\* changes came before.
C21_PctOfDayStartBalance ==
    get_daily_pnl_pct =
        IF day_start_balance = 0
        THEN Float(0)
        ELSE RatMul(RatDiv(Float(TodayPnl), Float(day_start_balance)), Float(100))

\* the daily loss limit in percent, the unit of current_daily_loss_pct
C22_LimitPct == RatMul(max_daily_loss_pct, Float(100))

\* C22: the remaining risk budget of every OrderApproval is, in percent like
\* its current_daily_loss_pct, the whole daily loss limit on a day that is not
\* losing, and otherwise the limit less the loss so far, never below zero.
C22_RemainingBudget ==
    approval # None =>
        LET a == Val(approval) IN
        a.remaining_risk_budget =
            IF RatLe(Float(0), a.current_daily_loss_pct)
            THEN C22_LimitPct
            ELSE RatMax(Float(0),
                        RatSub(C22_LimitPct, RatAbs(a.current_daily_loss_pct)))

\* C23: the quantity in the payload the signature of an approval is computed
\* over is the approval's adjusted_quantity, so that the signature binds the
\* order as approved.
C23_SignatureBindsApprovedQuantity ==
    IsApproved(approval) =>
        Val(Val(approval).signature)[4] = Val(Val(approval).adjusted_quantity)

\* C24: an order reaches the exchange connector only for a request that
\* validate_order has just approved: the step that places it is the one in
\* which the guardian returned the approval whose signature the order carries.
C24_OnlyApprovedOrdersPlaced ==
    [][exchange'.trade_count > exchange.trade_count => IsApproved(approval')]_vars

\* C25: every position recorded as open, in the ledger and in the exchange
\* simulator, has a quantity above zero.
C25_NoZeroQuantityPosition ==
    /\ \A id \in DOMAIN open_positions : open_positions[id].quantity > 0
    /\ \A symbol \in Symbols :
            exchange.positions[symbol] # None =>
                RatLt(Float(0), Val(exchange.positions[symbol]).qty)

\* C26: no validate_order call returns an approval at an instant at which the
\* kill switch is active, whatever ran between its kill-switch check and its
\* return.
C26_NoApprovalWhileActive ==
    IsApproved(approval) => ~kill_switch

\* C27: when positions are added only for orders that validate_order approved,
\* the ledger never holds more than max_concurrent_positions open positions.
C27_PositionsWithinLimit ==
    get_open_positions_count <= max_concurrent_positions

\* C28: the heartbeat the main loop sends under the name SYSTEM_RUNNER leaves
\* SystemHealth as it was, so every validate_order call the loop makes is
\* rejected, with HEARTBEAT_TIMEOUT or KILL_SWITCH_ACTIVE, and no order of the
\* loop ever reaches the executor.
C28_RunnerNeverTrades ==
    [][/\ (runner.pc = "balam" /\ runner'.pc = "guardian") =>
                system_health' = system_health
       /\ approval' # None =>
                \/ RejectedWith(approval', "HEARTBEAT_TIMEOUT")
                \/ RejectedWith(approval', "KILL_SWITCH_ACTIVE")
       /\ exchange'.trade_count = 0]_vars

\* the loop had a signal, asked the guardian and was refused for the heartbeat
C28_Witness ==
    /\ runner.pc = "balam"
    /\ order_request # None
    /\ Val(order_request).leverage = 1
    /\ RejectedWith(approval, "HEARTBEAT_TIMEOUT")
    /\ exchange.trade_count = 0

\* C29: within one calendar day the account balance is the day-start balance
\* plus the PnL realized so far that day, whatever set_initial_balance,
\* record_realized_pnl and reset_daily_tracking calls were made.
C29_BalanceFollowsDailyPnl ==
    today = 0 => account_balance = initial_balance + TodayPnl

\* the operation just made logged a kill-switch activation
C30_ActivationLogged ==
    \E i \in DOMAIN log : log[i].kind = "KILL_SWITCH_ACTIVATED"

\* C30: once a validate_order call has returned, whatever its verdict, and once
\* emergency_stop has run, SystemHealth.kill_switch_active equals the state of
\* the kill switch.
C30_FlagFollowsKillSwitch ==
    (approval # None \/ C30_ActivationLogged) =>
        system_health.kill_switch_active = kill_switch

====
